---- MODULE Spec2Model ----
(***************************************************************************)
(* State-machine model of SnakeGameRoom (server/src/rooms/SnakeGameRoom.ts) *)
(* The room's handlers run one at a time on a single execution context, so  *)
(* each handler is one atomic action.  Coordinates are integers; headings   *)
(* are restricted to multiples of 90 degrees so that cos/sin are integers.  *)
(***************************************************************************)
EXTENDS Integers, Sequences, FiniteSets, TLC

VARIABLES
    players,    \* state.players : session id -> Player (present sessions only)
    order,      \* iteration order of state.players (insertion order of the map)
    foods,      \* state.foods   : food id -> Food
    timers,     \* pending clock.setTimeout callbacks of respawnPlayer
    now,        \* the room clock, in ms
    events,     \* broadcasts emitted by the handler that ran last
    nids,       \* number of food ids generated so far
    nobj,       \* number of Player objects constructed so far
    nmsg,       \* number of client-originated calls handled so far
    last,       \* which handler ran last, its arguments and the state it started from
    probe       \* argument/result of an isolated wrapCoordinate evaluation

vars == <<players, order, foods, timers, now, events, nids, nobj, nmsg, last, probe>>

----------------------------------------------------------------------------
(* Program constants *)

tickRate == 16
BoostInterval == 500
InvulnerableMs == 3000
headRadius == 8
segmentRadius == 6
maxDistance == 250
initialSegments == 5
SegmentSpacing == 20
MinSegments == 5
BoostMultiplier == 6
NormalMultiplier == 3
DropDivisor == 3
MaxDrops == 20
JitterRange == 20
RareValue == 5

(* Values of the state schema (SnakeGameState / Player), taken from the spec *)
worldWidth == 1000
worldHeight == 1000
maxFoods == 2
speed == 3
DefaultAngle == 0

(* Bounds of the model *)
MaxMsgs == 2
MaxTicks == 2

Sessions == {"a", "b"}
Angles == {90, 180}
Far == <<500, 105>>
SpawnPositions == {<<4, 105>>, <<33, 100>>, Far}
Stranger == "x"
NoSession == "none"

----------------------------------------------------------------------------
(* Arithmetic helpers *)

Min(a, b) == IF a < b THEN a ELSE b
Max(a, b) == IF a > b THEN a ELSE b

\* JavaScript's % : the remainder has the sign of the dividend
JsRem(a, m) == IF a >= 0 THEN a % m ELSE -((-a) % m)

Cos(angle) == CASE angle = 0 -> 1 [] angle = 90 -> 0 [] angle = 180 -> -1 [] angle = 270 -> 0
Sin(angle) == CASE angle = 0 -> 0 [] angle = 90 -> 1 [] angle = 180 -> 0 [] angle = 270 -> -1

\* Math.sqrt(dx*dx + dy*dy) < r  for integers
DistLess(a, b, r) ==
    (a[1] - b[1]) * (a[1] - b[1]) + (a[2] - b[2]) * (a[2] - b[2]) < r * r
DistLeq(a, b, r) ==
    (a[1] - b[1]) * (a[1] - b[1]) + (a[2] - b[2]) * (a[2] - b[2]) <= r * r

\* a movement that does not wrap
wrapNothing(value, max) == value

wrapCoordinate(value, max) ==
    IF value < 0 THEN max + JsRem(value, max)
    ELSE IF value >= max THEN JsRem(value, max)
    ELSE value

----------------------------------------------------------------------------
(* Player *)

\* the 5 segments laid out by respawnPlayer (and by the Player constructor)
FreshSegments(pos) ==
    [i \in 1..initialSegments |-> <<pos[1] - (i - 1) * SegmentSpacing, pos[2]>>]

\* new Player(...) as onJoin creates it
NewPlayer(obj, pos) ==
    [obj |-> obj, alive |-> TRUE, score |-> 0, kills |-> 0,
     segments |-> FreshSegments(pos), angle |-> DefaultAngle,
     boosting |-> FALSE, boostTime |-> 0, invulnerable |-> FALSE]

\* Player.head
head(p) == p.segments[1]

\* Player.addSegment(): a new tail segment at the current tail position
addSegment(p) ==
    [p EXCEPT !.segments = Append(@, p.segments[Len(p.segments)])]

RECURSIVE addSegments(_, _)
addSegments(p, n) == IF n = 0 THEN p ELSE addSegments(addSegment(p), n - 1)

\* a boost charge that does not look at the length of the body
BoostCostNoFloor(p) ==
    IF p.boosting
    THEN LET t == p.boostTime + tickRate IN
         IF t >= BoostInterval
         THEN [p EXCEPT !.boostTime = 0, !.score = Max(0, p.score - 1),
                        !.segments = SubSeq(@, 1, Len(@) - 1)]
         ELSE [p EXCEPT !.boostTime = t]
    ELSE [p EXCEPT !.boostTime = 0]

\* the boost accounting of movePlayer
BoostCost(p) ==
    IF p.boosting
    THEN LET t == p.boostTime + tickRate IN
         IF t >= BoostInterval
         THEN IF Len(p.segments) > MinSegments
              THEN LET q == [p EXCEPT !.boostTime = 0, !.score = Max(0, p.score - 1)] IN
                   IF Len(q.segments) > MinSegments
                   THEN [q EXCEPT !.segments = SubSeq(@, 1, Len(@) - 1)]
                   ELSE [q EXCEPT !.boosting = FALSE]
              ELSE [p EXCEPT !.boostTime = 0, !.boosting = FALSE]
         ELSE [p EXCEPT !.boostTime = t]
    ELSE [p EXCEPT !.boostTime = 0]

\* the same loop run from the head to the tail: every segment ends on the old head
FollowHeadFirst(segs, newHead) ==
    [i \in 1..Len(segs) |-> IF i = 1 THEN newHead ELSE segs[1]]

\* the follow-the-leader loop of movePlayer: tail to head, then the head
Follow(segs, newHead) ==
    [i \in 1..Len(segs) |-> IF i = 1 THEN newHead ELSE segs[i - 1]]

movePlayer(p) ==
    IF ~p.alive \/ Len(p.segments) = 0 THEN p
    ELSE LET mult == IF p.boosting THEN BoostMultiplier ELSE NormalMultiplier
             q    == BoostCost(p)
             dx   == Cos(p.angle) * speed * mult
             dy   == Sin(p.angle) * speed * mult
             newX == wrapCoordinate(head(p)[1] + dx, worldWidth)
             newY == wrapCoordinate(head(p)[2] + dy, worldHeight)
         IN [q EXCEPT !.segments = Follow(q.segments, <<newX, newY>>)]

----------------------------------------------------------------------------
(* Food.  A food id is `food_${Date.now()}_${random suffix}`: the pair of   *)
(* the creation time and a suffix.  The generator does not look at the ids  *)
(* in use: an id drawn at time t is a new one, or one a food created at the *)
(* same time already has, and foods.set then overwrites that food.          *)
(*                                                                          *)
(* The Math.random() draws of one handler run are given by a record r:      *)
(*   r.low    the draws are at the low end of [0, 1) (a rare food of value  *)
(*            5, the first segment, jitter -20) or at the high end (a food  *)
(*            of value 1, the last segment, jitter just below +20)          *)
(*   r.clash  the id suffixes drawn repeat the one drawn last at that time  *)

Rnd == [low : BOOLEAN, clash : BOOLEAN]

SameTime(fs, t) == {i \in DOMAIN fs : i[1] = t}

NewFoodId(fs, n, t, r) ==
    IF r.clash /\ SameTime(fs, t) # {}
    THEN CHOOSE i \in SameTime(fs, t) : \A j \in SameTime(fs, t) : j[2] <= i[2]
    ELSE <<t, n + 1>>

PutFood(fs, id, food) ==
    [i \in DOMAIN fs \cup {id} |-> IF i = id THEN food ELSE fs[i]]

DelFood(fs, id) == [i \in DOMAIN fs \ {id} |-> fs[i]]

\* A world is the part of the room state a handler works on
World(ps, fs, ev, n) == [players |-> ps, foods |-> fs, events |-> ev, nids |-> n]

\* getRandomPosition(), as spawnFood uses it
FoodPosition(r) == <<150, 100>>

spawnFood(w, t, r) ==
    LET id  == NewFoodId(w.foods, w.nids, t, r)
        pos == FoodPosition(r)
        v   == IF r.low THEN RareValue ELSE 1
    IN World(w.players,
             PutFood(w.foods, id, [position |-> pos, value |-> v]),
             Append(w.events, <<"foodSpawned", id, pos, v>>),
             w.nids + 1)

RECURSIVE initializeFood(_, _, _, _)
initializeFood(w, t, r, n) ==
    IF n = 0 THEN w ELSE initializeFood(spawnFood(w, t, r), t, r, n - 1)

\* one iteration of the loop of spawnFoodFromDeadPlayer
DropOne(w, sid, t, r) ==
    LET segs == w.players[sid].segments
        seg  == IF r.low THEN segs[1] ELSE segs[Len(segs)]
        jit  == IF r.low THEN -JitterRange ELSE JitterRange - 1
        id   == NewFoodId(w.foods, w.nids, t, r)
        pos  == <<seg[1] + jit, seg[2] + jit>>
    IN World(w.players,
             PutFood(w.foods, id, [position |-> pos, value |-> 1]),
             Append(w.events, <<"foodSpawned", id, pos, 1>>),
             w.nids + 1)

RECURSIVE DropN(_, _, _, _, _)
DropN(w, sid, t, r, n) ==
    IF n = 0 THEN w ELSE DropN(DropOne(w, sid, t, r), sid, t, r, n - 1)

spawnFoodFromDeadPlayer(w, sid, t, r) ==
    DropN(w, sid, t, r, Min(Len(w.players[sid].segments) \div DropDivisor, MaxDrops))

----------------------------------------------------------------------------
(* Death and collisions *)

killPlayer(w, sid) ==
    World([w.players EXCEPT ![sid].alive = FALSE],
          w.foods,
          Append(w.events, <<"playerDied", sid>>),
          w.nids)

\* score and kill transfer to the killer, and the playerKilled broadcast
Credit(w, victim, killer) ==
    World([w.players EXCEPT ![killer].score = @ + (w.players[victim].score \div 2),
                            ![killer].kills = @ + 1],
          w.foods,
          Append(w.events, <<"playerKilled", victim, killer>>),
          w.nids)

\* a segment loop that starts at the head (index 0) of the other player
TouchesAnySegment(h, segs) ==
    \E i \in 1..Len(segs) : DistLess(h, segs[i], headRadius + segmentRadius)

\* the segment loop of checkPlayerCollisions: the other player's head is skipped
Touches(h, segs) ==
    \E i \in 2..Len(segs) : DistLess(h, segs[i], headRadius + segmentRadius)

\* the callback of the forEach of checkPlayerCollisions, for one other player
CollideWith(w, sid, oid, t, r) ==
    LET p == w.players[sid]
        o == w.players[oid]
    IN IF oid = sid \/ ~o.alive THEN w
       ELSE IF p.invulnerable THEN w
       ELSE IF Touches(head(p), o.segments)
            THEN spawnFoodFromDeadPlayer(Credit(killPlayer(w, sid), sid, oid), sid, t, r)
            ELSE w

RECURSIVE ForEachOther(_, _, _, _, _, _)
ForEachOther(w, sid, ord, k, t, r) ==
    IF k > Len(ord) THEN w
    ELSE ForEachOther(CollideWith(w, sid, ord[k], t, r), sid, ord, k + 1, t, r)

OutOfWorld(pos) ==
    pos[1] < 0 \/ pos[1] > worldWidth \/ pos[2] < 0 \/ pos[2] > worldHeight

worldBoundaryCollisions == TRUE

BoundaryCheck(w, sid, t, r) ==
    IF worldBoundaryCollisions /\ OutOfWorld(head(w.players[sid]))
    THEN LET w1 == killPlayer(w, sid)
             w2 == World(w1.players, w1.foods,
                         Append(w1.events, <<"playerDied", sid, "null">>), w1.nids)
         IN spawnFoodFromDeadPlayer(w2, sid, t, r)
    ELSE w

checkPlayerCollisions(w, sid, ord, t, r) ==
    IF ~w.players[sid].alive THEN w
    ELSE BoundaryCheck(ForEachOther(w, sid, ord, 1, t, r), sid, t, r)

\* the callback of state.players.forEach in gameLoop
LoopBody(w, sid, ord, t, r) ==
    IF ~w.players[sid].alive THEN w
    ELSE checkPlayerCollisions(
             World([w.players EXCEPT ![sid] = movePlayer(@)], w.foods, w.events, w.nids),
             sid, ord, t, r)

RECURSIVE ForEachPlayer(_, _, _, _, _)
ForEachPlayer(w, ord, k, t, r) ==
    IF k > Len(ord) THEN w
    ELSE ForEachPlayer(LoopBody(w, ord[k], ord, t, r), ord, k + 1, t, r)

Replenish(w, t, r) ==
    IF Cardinality(DOMAIN w.foods) < maxFoods THEN spawnFood(w, t, r) ELSE w

gameLoop(w, ord, t, r) == Replenish(ForEachPlayer(w, ord, 1, t, r), t, r)

----------------------------------------------------------------------------
(* Handlers *)

NoPlayers == [s \in {} |-> 0]
NoFood == <<0, 0>>

Present(s) == s \in DOMAIN players

Started(op, s, arg) ==
    [op |-> op, sid |-> s, arg |-> arg, pre |-> players, prefoods |-> foods]

\* a due timeout runs in the clock tick that reaches it, before anything else
NoDueTimer == \A t \in timers : t.due > now

\* onCreate: the state, the initial food, the game loop interval
Init ==
    /\ players = NoPlayers
    /\ order = <<>>
    /\ \E r \in Rnd :
          LET w == initializeFood(World(NoPlayers, <<>>, <<>>, 0), 0, r, maxFoods) IN
          /\ foods = w.foods
          /\ events = w.events
          /\ nids = w.nids
    /\ nobj = 0
    /\ timers = {}
    /\ now = 0
    /\ nmsg = 0
    /\ last = [op |-> "onCreate", sid |-> NoSession, arg |-> 0,
               pre |-> NoPlayers, prefoods |-> <<>>]
    /\ probe = <<>>

onJoin(s, pos) ==
    /\ NoDueTimer
    /\ ~Present(s)
    /\ players' = [t \in DOMAIN players \cup {s} |->
                      IF t = s THEN NewPlayer(nobj + 1, pos) ELSE players[t]]
    /\ order' = Append(order, s)
    /\ events' = <<>>
    /\ nmsg' = nmsg + 1
    /\ nobj' = nobj + 1
    /\ last' = Started("join", s, pos)
    /\ UNCHANGED <<foods, timers, now, nids, probe>>

onLeave(s) ==
    /\ NoDueTimer
    /\ Present(s)
    /\ players' = [t \in DOMAIN players \ {s} |-> players[t]]
    /\ order' = SelectSeq(order, LAMBDA t : t # s)
    /\ events' = <<>>
    /\ nmsg' = nmsg + 1
    /\ last' = Started("leave", s, 0)
    /\ UNCHANGED <<foods, timers, now, nids, nobj, probe>>

\* a move handler that does not look at the alive flag
onMoveUnchecked(s, angle) ==
    /\ NoDueTimer
    /\ players' = IF Present(s)
                  THEN [players EXCEPT ![s].angle = angle]
                  ELSE players
    /\ events' = <<>>
    /\ nmsg' = nmsg + 1
    /\ last' = Started("move", s, angle)
    /\ UNCHANGED <<order, foods, timers, now, nids, nobj, probe>>

onMove(s, angle) ==
    /\ NoDueTimer
    /\ players' = IF Present(s) /\ players[s].alive
                  THEN [players EXCEPT ![s].angle = angle]
                  ELSE players
    /\ events' = <<>>
    /\ nmsg' = nmsg + 1
    /\ last' = Started("move", s, angle)
    /\ UNCHANGED <<order, foods, timers, now, nids, nobj, probe>>

onBoost(s, active) ==
    /\ NoDueTimer
    /\ players' = IF Present(s) /\ players[s].alive
                  THEN [players EXCEPT ![s].boosting = (active /\ players[s].score >= 1)]
                  ELSE players
    /\ events' = <<>>
    /\ nmsg' = nmsg + 1
    /\ last' = Started("boost", s, active)
    /\ UNCHANGED <<order, foods, timers, now, nids, nobj, probe>>

\* a respawn that forgets to reset the kill count
RebornKeepsKills(p, pos) ==
    [p EXCEPT !.alive = TRUE, !.score = 0, !.invulnerable = TRUE,
              !.segments = FreshSegments(pos)]

\* what respawnPlayer does to the player object
Reborn(p, pos) ==
    [p EXCEPT !.alive = TRUE, !.score = 0, !.kills = 0, !.invulnerable = TRUE,
              !.segments = FreshSegments(pos)]

\* respawnPlayer(client)
respawnPlayer(s, pos) ==
    /\ NoDueTimer
    /\ IF ~Present(s)
       THEN UNCHANGED <<players, timers>>
       ELSE /\ players' = [players EXCEPT ![s] = Reborn(@, pos)]
            /\ timers' = timers \cup {[obj |-> players[s].obj, sid |-> s,
                                       due |-> now + InvulnerableMs]}
    /\ events' = <<>>
    /\ nmsg' = nmsg + 1
    /\ last' = Started("respawn", s, pos)
    /\ UNCHANGED <<order, foods, now, nids, nobj, probe>>

\* a callback that looks the player up by the session id when it runs
InvulnerabilityTimeoutBySession(t) ==
    /\ t \in timers
    /\ t.due <= now
    /\ players' = [s \in DOMAIN players |->
                      IF s = t.sid
                      THEN [players[s] EXCEPT !.invulnerable = FALSE]
                      ELSE players[s]]
    /\ timers' = timers \ {t}
    /\ events' = <<>>
    /\ last' = Started("timeout", NoSession, t.obj)
    /\ UNCHANGED <<order, foods, now, nids, nobj, nmsg, probe>>

\* the callback respawnPlayer hands to clock.setTimeout: it holds the player
\* object (obj), not the session id
InvulnerabilityTimeout(t) ==
    /\ t \in timers
    /\ t.due <= now
    /\ players' = [s \in DOMAIN players |->
                      IF players[s].obj = t.obj
                      THEN [players[s] EXCEPT !.invulnerable = FALSE]
                      ELSE players[s]]
    /\ timers' = timers \ {t}
    /\ events' = <<>>
    /\ last' = Started("timeout", NoSession, t.obj)
    /\ UNCHANGED <<order, foods, now, nids, nobj, nmsg, probe>>

\* an eatFood handler that removes the food and spawns none in its place
EatFoodNoSpawn(w, s, fid, t, r) ==
    IF ~(s \in DOMAIN w.players) \/ ~w.players[s].alive THEN w
    ELSE IF fid \notin DOMAIN w.foods THEN w
    ELSE LET food == w.foods[fid]
             p    == w.players[s]
         IN IF DistLeq(head(p), food.position, maxDistance)
            THEN LET grown == addSegments([p EXCEPT !.score = @ + food.value],
                                          IF food.value > 1 THEN 3 ELSE 1)
                 IN World([w.players EXCEPT ![s] = grown],
                          DelFood(w.foods, fid),
                          Append(w.events,
                                 <<"foodConsumed", fid, s, food.value>>),
                          w.nids)
            ELSE w

\* the eatFood handler
EatFood(w, s, fid, t, r) ==
    IF ~(s \in DOMAIN w.players) \/ ~w.players[s].alive THEN w
    ELSE IF fid \notin DOMAIN w.foods THEN w
    ELSE LET food == w.foods[fid]
             p    == w.players[s]
         IN IF DistLeq(head(p), food.position, maxDistance)
            THEN LET grown == addSegments([p EXCEPT !.score = @ + food.value],
                                          IF food.value > 1 THEN 3 ELSE 1)
                 IN spawnFood(World([w.players EXCEPT ![s] = grown],
                                    DelFood(w.foods, fid),
                                    Append(w.events,
                                           <<"foodConsumed", fid, s, food.value>>),
                                    w.nids),
                              t, r)
            ELSE w

\* a handler that leaves the room in world w
Becomes(w) ==
    /\ players' = w.players
    /\ foods' = w.foods
    /\ events' = w.events
    /\ nids' = w.nids

onEatFood(s, fid, r) ==
    /\ NoDueTimer
    /\ Becomes(EatFood(World(players, foods, <<>>, nids), s, fid, now, r))
    /\ nmsg' = nmsg + 1
    /\ last' = Started("eatFood", s, fid)
    /\ UNCHANGED <<order, timers, now, nobj, probe>>

\* a playerDied handler that ignores the killer id
PlayerDiedUncredited(w, s, killer, t, r) ==
    IF ~(s \in DOMAIN w.players) \/ ~w.players[s].alive THEN w
    ELSE spawnFoodFromDeadPlayer(killPlayer(w, s), s, t, r)

\* a playerDied handler that does not look at the alive flag
PlayerDiedAgain(w, s, killer, t, r) ==
    IF ~(s \in DOMAIN w.players) THEN w
    ELSE LET w1 == killPlayer(w, s)
             w2 == IF killer # NoSession /\ killer \in DOMAIN w1.players
                   THEN Credit(w1, s, killer)
                   ELSE w1
         IN spawnFoodFromDeadPlayer(w2, s, t, r)

\* the playerDied handler
PlayerDied(w, s, killer, t, r) ==
    IF ~(s \in DOMAIN w.players) \/ ~w.players[s].alive THEN w
    ELSE LET w1 == killPlayer(w, s)
             w2 == IF killer # NoSession /\ killer \in DOMAIN w1.players
                   THEN Credit(w1, s, killer)
                   ELSE w1
         IN spawnFoodFromDeadPlayer(w2, s, t, r)

onPlayerDied(s, killer, r) ==
    /\ NoDueTimer
    /\ Becomes(PlayerDied(World(players, foods, <<>>, nids), s, killer, now, r))
    /\ nmsg' = nmsg + 1
    /\ last' = Started("playerDied", s, killer)
    /\ UNCHANGED <<order, timers, now, nobj, probe>>

\* one firing of the game loop interval
Tick(r) ==
    /\ NoDueTimer
    /\ now' = now + tickRate
    /\ Becomes(gameLoop(World(players, foods, <<>>, nids), order, now + tickRate, r))
    /\ last' = Started("tick", NoSession, 0)
    /\ UNCHANGED <<order, timers, nobj, nmsg, probe>>

Senders == DOMAIN players \cup {Stranger}

CanSend == nmsg < MaxMsgs
CanTick == now < MaxTicks * tickRate

\* The room during its first ticks (no invulnerability timeout comes due that early)
Next ==
    \/ \E s \in Sessions, pos \in SpawnPositions : CanSend /\ onJoin(s, pos)
    \/ \E s \in Sessions : CanSend /\ onLeave(s)
    \/ \E s \in Senders, angle \in Angles : CanSend /\ onMove(s, angle)
    \/ \E s \in Senders, active \in BOOLEAN : CanSend /\ onBoost(s, active)
    \/ \E s \in Senders, pos \in SpawnPositions : CanSend /\ respawnPlayer(s, pos)
    \/ \E s \in Senders, fid \in DOMAIN foods \cup {NoFood}, r \in Rnd :
          CanSend /\ onEatFood(s, fid, r)
    \/ \E s \in Senders, killer \in Senders \cup {NoSession}, r \in Rnd :
          CanSend /\ onPlayerDied(s, killer, r)
    \/ \E r \in Rnd : CanTick /\ Tick(r)

Spec == Init /\ [][Next]_vars

----------------------------------------------------------------------------
(* A room in mid-game.  Its initial states are the states the handlers      *)
(* above produce from a fresh room by these calls, all before the first     *)
(* tick: two or three players join, "a" at Victim, "b" at Killer and "c" at *)
(* Killer2 (the bodies of b and c lie across a's path); a and b may each    *)
(* eat one rare food; a may then switch its boost on, report its own death, *)
(* or ask to respawn.  One more intent and the first ticks follow.          *)

ArenaMsgs == 1

Victim == <<4, 105>>
Killer == <<33, 100>>
Killer2 == <<33, 110>>

SpawnOf(s) == CASE s = "a" -> Victim [] s = "b" -> Killer [] s = "c" -> Killer2

\* a player that has eaten one rare food since it spawned
Fed(p) == addSegments([p EXCEPT !.score = @ + RareValue], 3)

\* the food after `n` rare foods were eaten and each replaced by a rare food
FoodsAfter(n) ==
    [i \in {<<0, 1>>, <<0, 2 + n>>} |->
        [position |-> <<150, 100>>, value |-> IF i = <<0, 1>> THEN 1 ELSE RareValue]]

Range(seq) == {seq[i] : i \in 1..Len(seq)}
IndexOf(seq, x) == CHOOSE i \in 1..Len(seq) : seq[i] = x

\* the room after the players of `ord` joined in that order and those of `fed` ate
Lobby(ord, fed) ==
    World([s \in Range(ord) |->
              IF s \in fed THEN Fed(NewPlayer(IndexOf(ord, s), SpawnOf(s)))
              ELSE NewPlayer(IndexOf(ord, s), SpawnOf(s))],
          FoodsAfter(Cardinality(fed)), <<>>, 2 + Cardinality(fed))

Lobbies ==
    {<<ord, Lobby(ord, fed)>> :
        ord \in {<<"a", "b">>, <<"b", "a">>},
        fed \in SUBSET {"a", "b"}}

QuietDraw == [low |-> FALSE, clash |-> FALSE]

Boosted(w) ==
    [w EXCEPT !.players["a"].boosting = (w.players["a"].score >= 1)]

Respawned(w) == [w EXCEPT !.players["a"] = Reborn(@, Victim)]

\* b reported its death naming a as its killer, then a reported its own
BothDied(w) ==
    PlayerDied(PlayerDied(w, "b", "a", 0, QuietDraw), "a", NoSession, 0, QuietDraw)

\* the number of the player object created last
Newest(ps, tm) ==
    LET made == {ps[s].obj : s \in DOMAIN ps} \cup {t.obj : t \in tm}
    IN IF made = {} THEN 0 ELSE CHOOSE n \in made : \A k \in made : k <= n

StartWith(w, ord, tm) ==
    /\ players = w.players
    /\ order = ord
    /\ foods = w.foods
    /\ timers = tm
    /\ now = 0
    /\ events = <<>>
    /\ nids = w.nids
    /\ nobj = Newest(w.players, tm)
    /\ nmsg = 0
    /\ last = [op |-> "start", sid |-> NoSession, arg |-> 0,
               pre |-> NoPlayers, prefoods |-> <<>>]
    /\ probe = <<>>

ArenaInit ==
    \E l \in Lobbies :
        \/ StartWith(l[2], l[1], {})
        \/ StartWith(Boosted(l[2]), l[1], {})
        \/ StartWith(PlayerDied(l[2], "a", NoSession, 0, QuietDraw), l[1], {})
        \/ StartWith(PlayerDied(Boosted(l[2]), "a", NoSession, 0, QuietDraw), l[1], {})
        \/ StartWith(BothDied(l[2]), l[1], {})
        \/ StartWith(Respawned(l[2]), l[1],
                     {[obj |-> l[2].players["a"].obj, sid |-> "a", due |-> InvulnerableMs]})

CanAct == nmsg < ArenaMsgs

\* the intents of the players in the room, and the game loop
NextArena ==
    \/ \E s \in DOMAIN players, angle \in Angles : CanAct /\ onMove(s, angle)
    \/ \E s \in DOMAIN players, active \in BOOLEAN : CanAct /\ onBoost(s, active)
    \/ \E s \in DOMAIN players, pos \in {Victim, Far} : CanAct /\ respawnPlayer(s, pos)
    \/ \E s \in DOMAIN players, fid \in DOMAIN foods, r \in Rnd :
          CanAct /\ onEatFood(s, fid, r)
    \/ \E s \in DOMAIN players, killer \in DOMAIN players \cup {NoSession} :
          CanAct /\ onPlayerDied(s, killer, QuietDraw)
    \/ \E r \in Rnd : CanTick /\ Tick(r)

SpecArena == ArenaInit /\ [][NextArena]_vars

----------------------------------------------------------------------------
(* A crowded spot: a third player "c" has joined too, so that the head of   *)
(* "a" reaches the bodies of two other players in the same tick.            *)

Crowds ==
    {<<ord, Lobby(ord, fed)>> :
        ord \in {<<"a", "b", "c">>, <<"c", "b", "a">>, <<"b", "a", "c">>},
        fed \in SUBSET {"a", "b"}}

CrowdInit ==
    \E l \in Crowds :
        \/ StartWith(l[2], l[1], {})
        \/ StartWith(Respawned(l[2]), l[1],
                     {[obj |-> l[2].players["a"].obj, sid |-> "a", due |-> InvulnerableMs]})

NextCrowd ==
    \/ \E s \in DOMAIN players, angle \in Angles : CanAct /\ onMove(s, angle)
    \/ \E s \in DOMAIN players, killer \in {NoSession}, r \in Rnd :
          CanAct /\ onPlayerDied(s, killer, r)
    \/ \E r \in Rnd : CanTick /\ Tick(r)

SpecCrowd == CrowdInit /\ [][NextCrowd]_vars

----------------------------------------------------------------------------
(* A long boost: one player has eaten some foods of value 1 where it        *)
(* spawned, has set its heading and has switched its boost on (or not);     *)
(* then only the game loop runs.                                            *)

BoostTicks == 100
BoostMeals == {1, 2, 4}

RECURSIVE Ate(_, _, _)
Ate(w, s, n) ==
    IF n = 0 THEN w
    ELSE Ate(EatFood(w, s, CHOOSE f \in DOMAIN w.foods : w.foods[f].value = 1, 0, QuietDraw),
             s, n - 1)

BoostInit ==
    \E n \in BoostMeals, angle \in Angles \cup {DefaultAngle}, on \in BOOLEAN :
        LET w == Ate(Lobby(<<"a">>, {}), "a", n)
            v == [w EXCEPT !.players["a"].angle = angle]
        IN StartWith(IF on THEN Boosted(v) ELSE v, <<"a">>, {})

NextBoost == \E r \in Rnd : now < BoostTicks * tickRate /\ Tick(r)

SpecBoost == BoostInit /\ [][NextBoost]_vars

----------------------------------------------------------------------------
(* The invulnerability window: the intents of one session during the first  *)
(* ticks, then the clock runs until every timeout has come due.             *)

TimerTicks == 192

\* "a" has joined; or it has joined, asked to respawn and left again
TimerInit ==
    \/ StartWith(Lobby(<<"a">>, {}), <<"a">>, {})
    \/ StartWith(World(NoPlayers, FoodsAfter(0), <<>>, 2), <<>>,
                 {[obj |-> 1, sid |-> "a", due |-> InvulnerableMs]})

NextTimer ==
    \/ CanSend /\ CanTick /\ onJoin("a", Victim)
    \/ CanSend /\ CanTick /\ onLeave("a")
    \/ CanSend /\ CanTick /\ respawnPlayer("a", Victim)
    \/ CanSend /\ CanTick /\ onPlayerDied("a", NoSession, QuietDraw)
    \/ now < TimerTicks * tickRate /\ Tick(QuietDraw)
    \/ \E t \in timers : InvulnerabilityTimeout(t)

SpecTimer == TimerInit /\ [][NextTimer]_vars

----------------------------------------------------------------------------
(* wrapCoordinate on its own: movePlayer's new head coordinate for a head   *)
(* coordinate and a displacement drawn from around the world's edges.       *)

ProbeEdge == 20
ProbeHeads == (-ProbeEdge..ProbeEdge) \cup ((worldWidth - ProbeEdge)..(worldWidth + ProbeEdge))
ProbeMoves == {-2 * worldWidth, -worldWidth - 18, -worldWidth, -18, -9, 0, 9, 18,
               worldWidth, 2 * worldWidth}

WrapInit ==
    /\ players = NoPlayers /\ order = <<>> /\ foods = <<>> /\ timers = {}
    /\ now = 0 /\ events = <<>> /\ nids = 0 /\ nobj = 0 /\ nmsg = 0
    /\ last = [op |-> "start", sid |-> NoSession, arg |-> 0,
               pre |-> NoPlayers, prefoods |-> <<>>]
    /\ \E h \in ProbeHeads, d \in ProbeMoves :
          probe = [head |-> h, move |-> d, max |-> worldWidth, done |-> FALSE, out |-> 0]

WrapStep ==
    /\ probe # <<>>
    /\ ~probe.done
    /\ probe' = [probe EXCEPT !.done = TRUE,
                              !.out = wrapCoordinate(probe.head + probe.move, probe.max)]
    /\ UNCHANGED <<players, order, foods, timers, now, events, nids, nobj, nmsg, last>>

SpecWrap == WrapInit /\ [][WrapStep]_vars

----------------------------------------------------------------------------
(* Intents of every kind: "a" joined at Victim and may have eaten, "b"      *)
(* joined too far from the food to eat it; a may have switched its boost    *)
(* on, died, or respawned.  Intents come from the players in the room and   *)
(* from a session that is not in it, and name any food id and any killer.   *)

Outpost(fed) ==
    [Lobby(<<"a", "b">>, fed) EXCEPT !.players["b"] = NewPlayer(2, Far)]

IntentsInit ==
    \E fed \in SUBSET {"a"} :
        \/ StartWith(Outpost(fed), <<"a", "b">>, {})
        \/ StartWith(Boosted(Outpost(fed)), <<"a", "b">>, {})
        \/ StartWith(PlayerDied(Boosted(Outpost(fed)), "a", NoSession, 0, QuietDraw),
                     <<"a", "b">>, {})
        \/ StartWith(BothDied(Outpost(fed)), <<"a", "b">>, {})
        \/ StartWith(Respawned(Outpost(fed)), <<"a", "b">>,
                     {[obj |-> 1, sid |-> "a", due |-> InvulnerableMs]})

NextIntents ==
    \/ \E s \in Senders, angle \in Angles : CanAct /\ onMove(s, angle)
    \/ \E s \in Senders, active \in BOOLEAN : CanAct /\ onBoost(s, active)
    \/ \E s \in Senders, pos \in {Victim, Far} : CanAct /\ respawnPlayer(s, pos)
    \/ \E s \in Senders, fid \in DOMAIN foods \cup {NoFood}, r \in Rnd :
          CanAct /\ onEatFood(s, fid, r)
    \/ \E s \in Senders, killer \in Senders \cup {NoSession} :
          CanAct /\ onPlayerDied(s, killer, QuietDraw)
    \/ \E r \in Rnd : CanTick /\ Tick(r)

SpecIntents == IntentsInit /\ [][NextIntents]_vars

----------------------------------------------------------------------------
(* The room when every food id drawn is a new one: the Math.random() draws  *)
(* of the handlers are those whose id suffix repeats no earlier one.  The   *)
(* room is a fresh one (the initial food, no player yet) or a room in       *)
(* mid-game as above; players join and leave, send intents, and the game    *)
(* loop runs.                                                               *)

DistinctIds == {r \in Rnd : ~r.clash}

PantryInit ==
    \/ \E r \in DistinctIds :
          StartWith(initializeFood(World(NoPlayers, <<>>, <<>>, 0), 0, r, maxFoods),
                    <<>>, {})
    \/ ArenaInit

NextPantry ==
    \/ \E s \in Sessions, pos \in SpawnPositions : CanAct /\ onJoin(s, pos)
    \/ \E s \in Sessions : CanAct /\ onLeave(s)
    \/ \E s \in DOMAIN players, angle \in Angles : CanAct /\ onMove(s, angle)
    \/ \E s \in DOMAIN players, pos \in {Victim, Far} : CanAct /\ respawnPlayer(s, pos)
    \/ \E s \in DOMAIN players, fid \in DOMAIN foods, r \in DistinctIds :
          CanAct /\ onEatFood(s, fid, r)
    \/ \E s \in DOMAIN players, killer \in DOMAIN players \cup {NoSession},
            r \in DistinctIds :
          CanAct /\ onPlayerDied(s, killer, r)
    \/ \E r \in DistinctIds : CanTick /\ Tick(r)

SpecPantry == PantryInit /\ [][NextPantry]_vars

----------------------------------------------------------------------------
(* The food economy in the long run: two players have joined (and may have  *)
(* eaten), the first tick has run, and the game loop runs for ever.  The clock reading is followed   *)
(* for the first MaxTicks ticks; after that the loop runs on with the       *)
(* reading held, so that the room has finitely many states.                 *)

\* the room after its first tick, in which "a" ran into "b" and died
EconomyInit ==
    \E l \in Lobbies :
        LET w == gameLoop(l[2], l[1], tickRate, QuietDraw) IN
        /\ players = w.players
        /\ order = l[1]
        /\ foods = w.foods
        /\ timers = {}
        /\ now = tickRate
        /\ events = w.events
        /\ nids = w.nids
        /\ nobj = Len(l[1])
        /\ nmsg = 0
        /\ last = [op |-> "tick", sid |-> NoSession, arg |-> 0,
                   pre |-> l[2].players, prefoods |-> l[2].foods]
        /\ probe = <<>>

EconomyTick(r) ==
    LET t == IF CanTick THEN now + tickRate ELSE now IN
    /\ NoDueTimer
    /\ now' = t
    /\ Becomes(gameLoop(World(players, foods, <<>>, nids), order, t, r))
    /\ last' = Started("tick", NoSession, 0)
    /\ UNCHANGED <<order, timers, nobj, nmsg, probe>>

NextEconomy == \E r \in Rnd : EconomyTick(r)

\* setSimulationInterval keeps calling the game loop
SpecEconomy == EconomyInit /\ [][NextEconomy]_vars /\ WF_vars(NextEconomy)

----------------------------------------------------------------------------
(* Properties.  `last` holds the handler that ran last, its arguments and   *)
(* the players and food it found; `events` holds what it broadcast.         *)

Died(s) ==
    /\ s \in DOMAIN last.pre
    /\ s \in DOMAIN players
    /\ last.pre[s].alive
    /\ ~players[s].alive

Broadcasts(kind) == {i \in 1..Len(events) : events[i][1] = kind}

RECURSIVE DropsOwed(_)
DropsOwed(S) ==
    IF S = {} THEN 0
    ELSE LET v == CHOOSE x \in S : TRUE
         IN Min(Len(players[v].segments) \div 3, 20) + DropsOwed(S \ {v})

\* C1: a player that dies in the collision check of a tick gets exactly one
\* playerDied and one playerKilled event, so one killer is credited, and the
\* death drop runs once (no other food is spawned in a tick that starts with
\* the target count of food).
C1_OneDeathPerCollision ==
    last.op = "tick" =>
        /\ \A s \in DOMAIN players :
              Died(s) =>
                  /\ Cardinality({i \in Broadcasts("playerDied") :
                                     events[i] = <<"playerDied", s>>}) = 1
                  /\ Cardinality({i \in Broadcasts("playerKilled") :
                                     events[i][2] = s}) = 1
        /\ Cardinality(DOMAIN last.prefoods) >= maxFoods =>
              Cardinality(Broadcasts("foodSpawned"))
                  = DropsOwed({s \in DOMAIN players : Died(s)})

\* C2: while a respawn handled at time T is less than 3000 ms old the player
\* is invulnerable, and the flag is down within one tick interval of T + 3000.
C2_InvulnerableWindow ==
    \A s \in DOMAIN players :
        /\ \A t \in timers :
              (t.obj = players[s].obj /\ now < t.due) => players[s].invulnerable
        /\ players[s].invulnerable =>
              \E t \in timers : t.obj = players[s].obj /\ now < t.due + tickRate

\* C3: a respawn intent from a player that is alive changes no player and
\* schedules no expiry timer.
C3_RespawnOnlyFromDead ==
    (last.op = "respawn" /\ last.sid \in DOMAIN last.pre /\ last.pre[last.sid].alive) =>
        /\ players = last.pre
        /\ \A t \in timers : t.obj = players[last.sid].obj => t.due < now + InvulnerableMs

RespawnOfDead ==
    /\ last.op = "respawn"
    /\ last.sid \in DOMAIN last.pre
    /\ ~last.pre[last.sid].alive

\* C4: right after a respawn request from a dead player, the player is alive
\* with 5 segments, score 0, kills 0 and invulnerable.
C4_RespawnResets ==
    RespawnOfDead =>
        /\ players[last.sid].alive
        /\ Len(players[last.sid].segments) = 5
        /\ players[last.sid].score = 0
        /\ players[last.sid].kills = 0
        /\ players[last.sid].invulnerable

\* a dead player with score, kills and a grown body has respawned
C4_Witness ==
    /\ RespawnOfDead
    /\ last.pre[last.sid].score > 0
    /\ last.pre[last.sid].kills > 0
    /\ Len(last.pre[last.sid].segments) > 5
    /\ players[last.sid].alive

\* C5: the coordinate wrapCoordinate returns for a head coordinate plus a
\* displacement lies in [0, dimension).
C5_WrapInRange ==
    probe.done => (0 <= probe.out /\ probe.out < probe.max)

\* C6: after a tick, segment i > 0 of a living player is where segment i - 1
\* was before the tick.
C6_Follow ==
    last.op = "tick" =>
        \A s \in DOMAIN players :
            (last.pre[s].alive /\ players[s].alive) =>
                \A i \in 2..Len(players[s].segments) :
                    players[s].segments[i] = last.pre[s].segments[i - 1]

\* a tick in which the boost cost truncated the tail of a body that had
\* grown by a meal
C6_Witness ==
    /\ last.op = "tick"
    /\ \E s \in DOMAIN players :
          /\ players[s].alive
          /\ Len(players[s].segments) < Len(last.pre[s].segments)
          /\ Len(players[s].segments) > initialSegments
          /\ players[s].segments[2] # players[s].segments[3]

\* the meals so far, in a room where nobody has died: each one brought one
\* replacement food
Meals == nids - maxFoods

\* C7: a player with at least 3 spare segments and 3 score points that has
\* boosted since time 0 has lost exactly 3 of each when the clock reaches
\* 1500 ms.
C7_BoostCost ==
    (3 * BoostInterval <= now /\ now < 3 * BoostInterval + tickRate) =>
        \A s \in DOMAIN players :
            (players[s].boosting /\ Meals >= 3) =>
                /\ Len(players[s].segments) = initialSegments + Meals - 3
                /\ players[s].score = Meals - 3

\* C8: no tick leaves a player boosting whose body a boost charge has just
\* reduced to 5 segments.
C8_BoostAutoOff ==
    last.op = "tick" =>
        \A s \in DOMAIN players :
            (/\ last.pre[s].boosting
             /\ Len(players[s].segments) < Len(last.pre[s].segments)
             /\ Len(players[s].segments) <= 5)
                => ~players[s].boosting

\* player b as the collision check of player a finds it: the players before
\* a in the iteration order have had their turn, the others have not
SeenBy(a, b) ==
    IF IndexOf(order, b) < IndexOf(order, a) THEN players[b] ELSE last.pre[b]

Hits(a, b) ==
    /\ b # a
    /\ SeenBy(a, b).alive
    /\ \E i \in 2..Len(SeenBy(a, b).segments) :
          LET dx == players[a].segments[1][1] - SeenBy(a, b).segments[i][1]
              dy == players[a].segments[1][2] - SeenBy(a, b).segments[i][2]
          IN dx * dx + dy * dy < 14 * 14

Struck(a) ==
    /\ last.pre[a].alive
    /\ ~last.pre[a].invulnerable
    /\ \E b \in DOMAIN players : Hits(a, b)

Prey(b) == {a \in DOMAIN players : Struck(a) /\ Hits(a, b)}

RECURSIVE Spoils(_)
Spoils(S) ==
    IF S = {} THEN 0
    ELSE LET v == CHOOSE x \in S : TRUE
         IN (players[v].score \div 2) + Spoils(S \ {v})

\* C9: in a tick a living player dies exactly when it is not invulnerable and
\* its moved head is closer than 14 to a segment of index >= 1 of another
\* living player; that player gets half the victim's score and one kill, and
\* playerKilled(killed, killer) is broadcast for exactly these pairs.
C9_CollisionDeath ==
    last.op = "tick" =>
        \A a \in DOMAIN players :
            /\ Died(a) <=> Struck(a)
            /\ \A b \in DOMAIN players :
                  (\E i \in Broadcasts("playerKilled") : events[i] = <<"playerKilled", a, b>>)
                      <=> (Struck(a) /\ Hits(a, b))
            /\ players[a].kills = last.pre[a].kills + Cardinality(Prey(a))
            /\ players[a].score = last.pre[a].score + Spoils(Prey(a))

\* a tick in which a player with score ran into a body and its killer was paid
C9_Witness ==
    /\ last.op = "tick"
    /\ \E a, b \in DOMAIN players :
          /\ Struck(a) /\ Hits(a, b)
          /\ ~players[a].alive
          /\ players[a].score > 1
          /\ players[b].score > last.pre[b].score
          /\ players[b].kills = last.pre[b].kills + 1

\* C10: a successful eatFood adds the value to the score, appends 3 segments
\* (value > 1) or 1 at the tail, removes the food, spawns one replacement so
\* that the food count is unchanged, and broadcasts one foodConsumed event
\* with the food id, the player id and the value.
C10_EatFood ==
    (/\ last.op = "eatFood"
     /\ last.sid \in DOMAIN last.pre
     /\ last.pre[last.sid].alive
     /\ last.arg \in DOMAIN last.prefoods
     /\ DistLeq(last.pre[last.sid].segments[1], last.prefoods[last.arg].position, 250))
        => LET was  == last.pre[last.sid]
               is   == players[last.sid]
               v    == last.prefoods[last.arg].value
               more == IF v > 1 THEN 3 ELSE 1
           IN /\ is.score = was.score + v
              /\ Len(is.segments) = Len(was.segments) + more
              /\ \A i \in 1..Len(is.segments) :
                    is.segments[i] = was.segments[Min(i, Len(was.segments))]
              /\ last.arg \notin DOMAIN foods
              /\ Cardinality(Broadcasts("foodSpawned")) = 1
              /\ Cardinality(DOMAIN foods) = Cardinality(DOMAIN last.prefoods)
              /\ Cardinality(Broadcasts("foodConsumed")) = 1
              /\ \E i \in Broadcasts("foodConsumed") :
                    events[i] = <<"foodConsumed", last.arg, last.sid, v>>

\* the intent that ran last is one the handlers must drop
Dropped ==
    \/ /\ last.op \in {"move", "boost", "eatFood", "playerDied"}
       /\ (last.sid \notin DOMAIN last.pre \/ ~last.pre[last.sid].alive)
    \/ /\ last.op = "eatFood"
       /\ last.sid \in DOMAIN last.pre
       /\ \/ last.arg \notin DOMAIN last.prefoods
          \/ LET h == last.pre[last.sid].segments[1]
                 f == last.prefoods[last.arg].position
             IN (h[1] - f[1]) * (h[1] - f[1]) + (h[2] - f[2]) * (h[2] - f[2]) > 250 * 250

\* C11: a move, boost, eatFood or playerDied intent from a sender that is not
\* in the room or is dead, an eatFood naming no food, and an eatFood from
\* farther than 250 leave all players and all food unchanged and broadcast
\* nothing.
C11_FailSilent ==
    Dropped => (players = last.pre /\ foods = last.prefoods /\ events = <<>>)

\* a second playerDied intent from a dead player that had score and a body
\* to drop, naming a killer that is in the room
C11_Witness ==
    /\ last.op = "playerDied"
    /\ last.sid \in DOMAIN last.pre
    /\ ~last.pre[last.sid].alive
    /\ last.pre[last.sid].score > 1
    /\ last.arg \in DOMAIN players
    /\ last.arg # last.sid
    /\ players[last.arg].alive

\* the spawnFood calls of the tick that ran last, beyond its death drops
TopUps ==
    Cardinality(Broadcasts("foodSpawned")) - DropsOwed({s \in DOMAIN players : Died(s)})

TopUpOnlyBelowTarget ==
    last.op = "tick" =>
        /\ TopUps \in {0, 1}
        /\ TopUps = 1 => Cardinality(DOMAIN foods) <= maxFoods
        /\ TopUps = 0 => Cardinality(DOMAIN foods) >= maxFoods

AboveTarget == Cardinality(DOMAIN foods) > maxFoods

\* C12: a tick tops the food up by exactly one spawn when the count is below
\* the target after the players were processed and by none otherwise, and a
\* count above the target eventually returns to at most the target.
C12_EconomyFloor ==
    /\ []TopUpOnlyBelowTarget
    /\ AboveTarget ~> ~AboveTarget

Victims == {s \in DOMAIN players : Died(s)}

NewFoods == DOMAIN foods \ DOMAIN last.prefoods

NearBody(pos, v) ==
    \E i \in 1..Len(players[v].segments) :
        /\ pos[1] - players[v].segments[i][1] \in -20..20
        /\ pos[2] - players[v].segments[i][2] \in -20..20

\* C13: a step in which players die (a tick or a playerDied intent, in a room
\* that had its target count of food, so that no top-up runs) broadcasts
\* playerDied for each victim and adds min(floor(segments / 3), 20) foods per
\* victim, each of value 1, within 20 units per axis of a segment of a victim
\* and announced by one foodSpawned event.
C13_DeathDrop ==
    (/\ last.op \in {"tick", "playerDied"}
     /\ Victims # {}
     /\ Cardinality(DOMAIN last.prefoods) >= maxFoods)
        => /\ \A v \in Victims :
                 \E i \in Broadcasts("playerDied") : events[i][2] = v
           /\ Cardinality(NewFoods) = DropsOwed(Victims)
           /\ Cardinality(Broadcasts("foodSpawned")) = DropsOwed(Victims)
           /\ \A f \in NewFoods :
                 /\ foods[f].value = 1
                 /\ \E v \in Victims : NearBody(foods[f].position, v)
                 /\ Cardinality({i \in Broadcasts("foodSpawned") : events[i][2] = f}) = 1

ReportedDeath ==
    /\ last.op = "playerDied"
    /\ last.sid \in DOMAIN last.pre
    /\ last.pre[last.sid].alive

\* C14: a playerDied intent from a living player makes it dead; a killer id
\* that names a player in the room gives that player floor(victim.score / 2)
\* score and one kill and one playerKilled(killed, killer) broadcast; without
\* such a killer id no score, no kill count changes and there is no
\* playerKilled broadcast.
C14_ReportedDeath ==
    ReportedDeath =>
        LET s == last.sid
            k == last.arg
            paid == k \in DOMAIN last.pre
        IN /\ ~players[s].alive
           /\ \A p \in DOMAIN players :
                 /\ players[p].score = last.pre[p].score
                        + (IF paid /\ p = k THEN last.pre[s].score \div 2 ELSE 0)
                 /\ players[p].kills = last.pre[p].kills
                        + (IF paid /\ p = k THEN 1 ELSE 0)
           /\ Cardinality(Broadcasts("playerKilled")) = (IF paid THEN 1 ELSE 0)
           /\ \A i \in Broadcasts("playerKilled") : events[i] = <<"playerKilled", s, k>>

\* a living player with score reported its death and named another player
C14_Witness ==
    /\ ReportedDeath
    /\ last.pre[last.sid].score > 1
    /\ last.arg \in DOMAIN players
    /\ last.arg # last.sid
    /\ players[last.arg].score > last.pre[last.arg].score

\* C15: a dead player stays dead, with the same segments and heading, through
\* every step (tick, intent, timeout) that is not a respawn request of its own.
C15_DeadIsTerminal ==
    \A s \in DOMAIN players \cap DOMAIN last.pre :
        (/\ players[s].obj = last.pre[s].obj
         /\ ~last.pre[s].alive
         /\ ~(last.op = "respawn" /\ last.sid = s))
            => /\ ~players[s].alive
               /\ players[s].segments = last.pre[s].segments
               /\ players[s].angle = last.pre[s].angle

\* a dead player sent a move intent with a heading it does not have
C15_Witness ==
    /\ last.op = "move"
    /\ last.sid \in DOMAIN last.pre
    /\ ~last.pre[last.sid].alive
    /\ last.pre[last.sid].angle # last.arg
    /\ \E o \in DOMAIN players : players[o].alive

\* the timeout that ran last belongs to a player object that had left the room
OrphanTimeout ==
    /\ last.op = "timeout"
    /\ \A s \in DOMAIN last.pre : last.pre[s].obj # last.arg

\* C16: the timeout of a player that respawned and left changes nothing: the
\* set of players and every field of every player in the room are as before,
\* also for a player that joined after the departure.
C16_OrphanTimeout ==
    OrphanTimeout => (players = last.pre /\ foods = last.prefoods /\ events = <<>>)

\* the timeout of a departed player ran while a player that joined later
\* under the same session id was invulnerable
C16_Witness ==
    /\ OrphanTimeout
    /\ \E s \in DOMAIN players : players[s].invulnerable

\* C17: no step broadcasts a boundary death (the playerDied event with a null
\* killer that only the boundary branch of the collision check sends), and
\* every death in a tick is a collision with another player.
C17_NoBoundaryDeath ==
    /\ \A i \in Broadcasts("playerDied") : Len(events[i]) = 2
    /\ last.op = "tick" => \A s \in DOMAIN players : Died(s) => Struck(s)

\* a tick wrapped the head of a living player around the left edge
C17_Witness ==
    /\ last.op = "tick"
    /\ \E s \in DOMAIN players :
          /\ players[s].alive
          /\ last.pre[s].angle = 180
          /\ players[s].segments[1][1] > last.pre[s].segments[1][1]

\* C18: every player in the room, alive or dead, has at least 5 segments.
C18_AtLeastFive ==
    \A s \in DOMAIN players : Len(players[s].segments) >= 5

\* a boost charge found a body of 5 segments and switched the boost off
C18_Witness ==
    /\ last.op = "tick"
    /\ \E s \in DOMAIN players :
          /\ last.pre[s].boosting
          /\ ~players[s].boosting
          /\ Len(last.pre[s].segments) = 5
          /\ Len(players[s].segments) = 5

\* C19: a step in which a player dies leaves the score and the kill count of
\* every player that was dead before it unchanged, and leaves the victim's
\* own as they were before its death (in a tick the victim may first have
\* been paid for players that ran into it).
C19_NoCreditToVictimOrDead ==
    (last.op \in {"tick", "playerDied"} /\ Victims # {}) =>
        \A s \in DOMAIN players :
            /\ ~last.pre[s].alive =>
                  /\ players[s].score = last.pre[s].score
                  /\ players[s].kills = last.pre[s].kills
            /\ (Died(s) /\ last.op = "playerDied") =>
                  /\ players[s].score = last.pre[s].score
                  /\ players[s].kills = last.pre[s].kills
            /\ (Died(s) /\ last.op = "tick") =>
                  /\ players[s].score = last.pre[s].score + Spoils(Prey(s))
                  /\ players[s].kills = last.pre[s].kills + Cardinality(Prey(s))

\* C20: right after a respawn request the player is not boosting and its
\* boost accumulator is 0.
C20_RespawnStopsBoost ==
    (last.op = "respawn" /\ last.sid \in DOMAIN players) =>
        /\ ~players[last.sid].boosting
        /\ players[last.sid].boostTime = 0

\* C21: when no spawned food id repeats an earlier one, no tick and no
\* intent lowers the number of foods, the number is never below maxFoods,
\* and no tick tops the food up.
C21_FoodNeverDecreases ==
    /\ Cardinality(DOMAIN foods) >= maxFoods
    /\ Cardinality(DOMAIN foods) >= Cardinality(DOMAIN last.prefoods)
    /\ last.op = "tick" => TopUps = 0

\* a food was eaten while a death drop had the count above the target, and
\* the count stayed where it was
C21_Witness ==
    /\ last.op = "eatFood"
    /\ Broadcasts("foodConsumed") # {}
    /\ Cardinality(DOMAIN last.prefoods) > maxFoods
    /\ Cardinality(DOMAIN foods) = Cardinality(DOMAIN last.prefoods)
    /\ DOMAIN foods # DOMAIN last.prefoods

====
